---- MODULE Spec2Model ----
(***************************************************************************)
(* A model of customblocks.CustomBlocksProcessor                           *)
(* (src/customblocks/customblocks.py).                                     *)
(*                                                                         *)
(* Text is a sequence of one-character strings, so that the regular        *)
(* expressions, detab and the literal evaluation can be computed the way   *)
(* the code computes them.  Python values that are not text (True, False,  *)
(* the CallContext, inspect.Parameter.empty) are one-element sequences     *)
(* holding a longer string: they can be equal to no text.                  *)
(***************************************************************************)
EXTENDS Integers, Sequences, FiniteSets, TLC

VARIABLES
    pc,        \* where the processor stands
    blocks,    \* the host's queue of blocks (a Python list, mutated in place)
    chunks,    \* the texts handed back to the host with parser.parseChunk
    parent,    \* the children appended to the parent element
    config,    \* the extension's settings, as the processor holds them
    Meta,      \* parser.md.Meta
    blocktype, \* the type keyword of the headline
    params,    \* the parameter text of the headline
    raised,    \* the exception that left the method, or "none"
    content,   \* the indented content of the block
    generator, \* the generator the type resolved to
    ctx,       \* the CallContext
    sig,       \* inspect.signature(callback).parameters, in declaration order
    args,      \* the positional tokens (a Python list, mutated in place)
    kwds,      \* the named tokens (a Python dict, in insertion order)
    inargs,    \* history: args as handed to _adaptParams
    inkwds,    \* history: kwds as handed to _adaptParams
    outargs,   \* the positional arguments _adaptParams returns
    outkwds,   \* the named arguments _adaptParams returns
    warnings,  \* the warnings issued so far, in order
    result     \* what the call of the generator did

hostVars == <<blocks, chunks, parent, config, Meta>>
textVars == <<blocktype, params, raised, content, generator, ctx>>
bindVars == <<sig, inargs, inkwds, outargs, outkwds, warnings, result>>

vars == <<pc, hostVars, textVars, bindVars, args, kwds>>

-----------------------------------------------------------------------------
(* Bounds of the model. *)

MaxParams == 2
MaxArgs == 3
MaxText == 5
MaxBlocks == 3

-----------------------------------------------------------------------------
(* Python values. *)

PyTrue == <<"True">>
PyFalse == <<"False">>
Empty == <<"inspect.Parameter.empty">>
CtxObj == <<"CallContext">>
EmptyStr == <<>>

NameCtx == <<"c", "t", "x">>

PO == "POSITIONAL_ONLY"
POK == "POSITIONAL_OR_KEYWORD"
VP == "VAR_POSITIONAL"
KO == "KEYWORD_ONLY"
VK == "VAR_KEYWORD"

(* list and dict primitives *)

\* the one element of a set: Only({F(x) : x \in {e}}) is F(e), e evaluated once
Only(S) == CHOOSE x \in S : TRUE

Range(s) == {s[i] : i \in 1..Len(s)}

InList(l, x) == \E i \in 1..Len(l) : l[i] = x

IndexOf(l, x) == CHOOSE i \in 1..Len(l) : l[i] = x /\ \A j \in 1..(i - 1) : l[j] /= x

\* list.remove(x): the first occurrence only
ListRemove(l, x) ==
    LET i == IndexOf(l, x) IN SubSeq(l, 1, i - 1) \o SubSeq(l, i + 1, Len(l))

\* a dict is the sequence of its <<key, value>> items in insertion order
DictHas(d, k) == \E i \in 1..Len(d) : d[i][1] = k

DictGet(d, k) == d[CHOOSE i \in 1..Len(d) : d[i][1] = k][2]

DictSet(d, k, v) ==
    IF DictHas(d, k)
    THEN [i \in 1..Len(d) |-> IF d[i][1] = k THEN <<k, v>> ELSE d[i]]
    ELSE Append(d, <<k, v>>)

DictPop(d, k) == SelectSeq(d, LAMBDA e : e[1] /= k)

DictKeys(d) == [i \in 1..Len(d) |-> d[i][1]]

RECURSIVE DictUpdate(_, _)
DictUpdate(d, e) ==
    IF e = <<>> THEN d
    ELSE Only({DictUpdate(d1, Tail(e)) : d1 \in {DictSet(d, Head(e)[1], Head(e)[2])}})

-----------------------------------------------------------------------------
(* _adaptParams *)

Warning(type, message, subject) ==
    [block |-> type, message |-> message, subject |-> subject]

IsFlag(param) == param.default \in {PyTrue, PyFalse} \/ param.annotation = "bool"

\* one iteration of "Turn flags into boolean keywords"
TurnFlag(st, param) ==
    IF ~IsFlag(param) THEN st
    ELSE
        LET name == param.name
            noname == <<"n", "o">> \o name
            s1 == IF InList(st.args, name)
                  THEN [args |-> ListRemove(st.args, name),
                        kwds |-> DictSet(st.kwds, name, PyTrue)]
                  ELSE st
        IN  IF InList(s1.args, noname)
            THEN [args |-> ListRemove(s1.args, noname),
                  kwds |-> DictSet(s1.kwds, name, PyFalse)]
            ELSE s1

RECURSIVE TurnFlags(_, _)
TurnFlags(signature, st) ==
    IF signature = <<>> THEN st
    ELSE Only({TurnFlags(Tail(signature), s1) : s1 \in {TurnFlag(st, Head(signature))}})

\* WalkParam with the precedence turned round: a positional token is taken
\* before the named token of the parameter
WalkParam_positionalFirst(st, param, type) ==
    LET name == param.name IN
    IF name = NameCtx THEN [st EXCEPT !.outargs = Append(@, CtxObj)]
    ELSE IF param.kind = VK THEN [st EXCEPT !.acceptAnyKey = TRUE]
    ELSE IF param.kind = VP THEN [st EXCEPT !.acceptAnyPos = TRUE]
    ELSE
        LET byPos == st.args /= <<>> /\ param.kind /= KO
            byKey == ~byPos /\ DictHas(st.kwds, name) /\ param.kind /= PO
            byDefault == ~byKey /\ ~byPos /\ param.default /= Empty
            missing == ~byKey /\ ~byPos /\ ~byDefault
            value == IF byPos THEN Head(st.args)
                     ELSE IF byKey THEN DictGet(st.kwds, name)
                     ELSE IF byDefault THEN param.default
                     ELSE EmptyStr
            s1 == [st EXCEPT
                     !.kwds = IF byKey THEN DictPop(@, name) ELSE @,
                     !.args = IF byPos THEN Tail(@) ELSE @,
                     !.warnings = IF missing
                                  THEN Append(@, Warning(type, "missing mandatory attribute", name))
                                  ELSE @]
        IN  IF param.kind = KO
            THEN [s1 EXCEPT !.outkwds = DictSet(@, name, value)]
            ELSE [s1 EXCEPT !.outargs = Append(@, value)]

\* WalkParam that says nothing of a missing mandatory parameter
WalkParam_silentMissing(st, param, type) ==
    LET name == param.name IN
    IF name = NameCtx THEN [st EXCEPT !.outargs = Append(@, CtxObj)]
    ELSE IF param.kind = VK THEN [st EXCEPT !.acceptAnyKey = TRUE]
    ELSE IF param.kind = VP THEN [st EXCEPT !.acceptAnyPos = TRUE]
    ELSE
        LET byKey == DictHas(st.kwds, name) /\ param.kind /= PO
            byPos == ~byKey /\ st.args /= <<>> /\ param.kind /= KO
            byDefault == ~byKey /\ ~byPos /\ param.default /= Empty
            value == IF byKey THEN DictGet(st.kwds, name)
                     ELSE IF byPos THEN Head(st.args)
                     ELSE IF byDefault THEN param.default
                     ELSE EmptyStr
            s1 == [st EXCEPT
                     !.kwds = IF byKey THEN DictPop(@, name) ELSE @,
                     !.args = IF byPos THEN Tail(@) ELSE @]
        IN  IF param.kind = KO
            THEN [s1 EXCEPT !.outkwds = DictSet(@, name, value)]
            ELSE [s1 EXCEPT !.outargs = Append(@, value)]

\* one iteration of the loop that fills outargs and outkwds
WalkParam(st, param, type) ==
    LET name == param.name IN
    IF name = NameCtx THEN [st EXCEPT !.outargs = Append(@, CtxObj)]
    ELSE IF param.kind = VK THEN [st EXCEPT !.acceptAnyKey = TRUE]
    ELSE IF param.kind = VP THEN [st EXCEPT !.acceptAnyPos = TRUE]
    ELSE
        LET byKey == DictHas(st.kwds, name) /\ param.kind /= PO
            byPos == ~byKey /\ st.args /= <<>> /\ param.kind /= KO
            byDefault == ~byKey /\ ~byPos /\ param.default /= Empty
            missing == ~byKey /\ ~byPos /\ ~byDefault
            value == IF byKey THEN DictGet(st.kwds, name)
                     ELSE IF byPos THEN Head(st.args)
                     ELSE IF byDefault THEN param.default
                     ELSE EmptyStr
            s1 == [st EXCEPT
                     !.kwds = IF byKey THEN DictPop(@, name) ELSE @,
                     !.args = IF byPos THEN Tail(@) ELSE @,
                     !.warnings = IF missing
                                  THEN Append(@, Warning(type, "missing mandatory attribute", name))
                                  ELSE @]
        IN  IF param.kind = KO
            THEN [s1 EXCEPT !.outkwds = DictSet(@, name, value)]
            ELSE [s1 EXCEPT !.outargs = Append(@, value)]

RECURSIVE SignatureWalk(_, _, _)
SignatureWalk(signature, st, type) ==
    IF signature = <<>> THEN st
    ELSE Only({SignatureWalk(Tail(signature), s1, type) :
                  s1 \in {WalkParam(st, Head(signature), type)}})

\* Overflow that warns of the first extra positional token only
Overflow_warnsOnce(st, type) ==
    LET s1 == IF st.acceptAnyPos
              THEN [st EXCEPT !.outargs = @ \o st.args]
              ELSE [st EXCEPT !.warnings = @ \o
                      [i \in 1..(IF st.args = <<>> THEN 0 ELSE 1) |->
                          Warning(type, "ignored extra attribute", st.args[i])]]
    IN  IF s1.acceptAnyKey
        THEN [s1 EXCEPT !.outkwds = DictUpdate(@, s1.kwds)]
        ELSE [s1 EXCEPT !.warnings = @ \o
                [i \in 1..Len(s1.kwds) |->
                    Warning(type, "ignoring unexpected parameter", s1.kwds[i][1])]]

\* "Extend var pos" and "Extend var key"
Overflow(st, type) ==
    LET s1 == IF st.acceptAnyPos
              THEN [st EXCEPT !.outargs = @ \o st.args]
              ELSE [st EXCEPT !.warnings = @ \o
                      [i \in 1..Len(st.args) |->
                          Warning(type, "ignored extra attribute", st.args[i])]]
    IN  IF s1.acceptAnyKey
        THEN [s1 EXCEPT !.outkwds = DictUpdate(@, s1.kwds)]
        ELSE [s1 EXCEPT !.warnings = @ \o
                [i \in 1..Len(s1.kwds) |->
                    Warning(type, "ignoring unexpected parameter", s1.kwds[i][1])]]

\* the second half of _adaptParams, from the args and kwds the flags left
WalkAndOverflow(signature, type, a, k, w) ==
    Only({Only({Overflow(walked, type) : walked \in {SignatureWalk(signature, st, type)}}) :
             st \in {[args |-> a, kwds |-> k, outargs |-> <<>>, outkwds |-> <<>>,
                      acceptAnyKey |-> FALSE, acceptAnyPos |-> FALSE, warnings |-> w]}})

_adaptParams(signature, type, a, k, w) ==
    Only({WalkAndOverflow(signature, type, f.args, f.kwds, w) :
             f \in {Only({TurnFlags(signature, st) : st \in {[args |-> a, kwds |-> k]}})}})

-----------------------------------------------------------------------------
\* The call of the generator with outargs and kwds unpacked: Python's binding
\* of a call to a signature.

Positionals(signature) == SelectSeq(signature, LAMBDA p : p.kind \in {PO, POK})

HasKind(signature, kind) == \E i \in 1..Len(signature) : signature[i].kind = kind

ParamNamed(signature, name) ==
    signature[CHOOSE i \in 1..Len(signature) : signature[i].name = name]

Declares(signature, name) == \E i \in 1..Len(signature) : signature[i].name = name

\* the names bound by position, given n positional arguments
BoundByPosition(signature, n) ==
    LET pp == Positionals(signature)
    IN  {pp[i].name : i \in 1..(IF n < Len(pp) THEN n ELSE Len(pp))}

Call(signature, pos, kw) ==
    LET pp == Positionals(signature)
        byPos == BoundByPosition(signature, Len(pos))
        tooMany == Len(pos) > Len(pp) /\ ~HasKind(signature, VP)
        keyable(k) == Declares(signature, k) /\ ParamNamed(signature, k).kind \in {POK, KO}
        twice == \E i \in 1..Len(kw) : keyable(kw[i][1]) /\ kw[i][1] \in byPos
        unexpected == \E i \in 1..Len(kw) : ~keyable(kw[i][1]) /\ ~HasKind(signature, VK)
        byKey == {kw[i][1] : i \in 1..Len(kw)} \cap
                    {signature[i].name : i \in {j \in 1..Len(signature) :
                                                   signature[j].kind \in {POK, KO}}}
        unbound == {i \in 1..Len(signature) :
                       /\ signature[i].kind \in {PO, POK, KO}
                       /\ signature[i].name \notin (byPos \cup byKey)}
        missing == \E i \in unbound : signature[i].default = Empty
        received ==
            [i \in {j \in 1..Len(signature) : signature[j].kind \in {PO, POK, KO}} |->
                LET p == signature[i] IN
                IF p.name \in byPos
                THEN pos[CHOOSE j \in 1..Len(pp) : pp[j].name = p.name]
                ELSE IF p.name \in byKey THEN DictGet(kw, p.name)
                ELSE p.default]
    IN  IF tooMany \/ twice \/ unexpected \/ missing
        THEN [raised |-> "TypeError", received |-> <<>>]
        ELSE [raised |-> "none", received |-> received]

-----------------------------------------------------------------------------
(* Characters and the pieces of RE_HEADLINE and RE_PARAM.  A position is    *)
(* the index of the next character to read; a match that fails ends at 0.   *)
(* Where the pattern can match in several ways the ends are listed in the   *)
(* order the backtracking matcher tries them.                               *)

Whitespace == {" ", "\n", "\t"}
Punctuation == {":", "'", "\"", "\\", "=", "-"}

At(s, i) == IF i >= 1 /\ i <= Len(s) THEN s[i] ELSE ""

\* \s, [\S], [\w], [\w\-] and the space of the marker
IsSpace(c) == c \in Whitespace
NonSpace(c) == c /= "" /\ c \notin Whitespace
IsWord(c) == c /= "" /\ c \notin Whitespace \cup Punctuation
IsKeyChar(c) == IsWord(c) \/ c = "-"
IsBlank(c) == c = " "

\* the position after the longest run of characters of a class
RunEnd(s, i, Class(_)) ==
    CHOOSE j \in i..(Len(s) + 1) :
        /\ \A k \in i..(j - 1) : Class(s[k])
        /\ j = Len(s) + 1 \/ ~Class(s[j])

StartsWith(s, i, t) ==
    /\ i + Len(t) - 1 <= Len(s)
    /\ \A k \in 1..Len(t) : s[i + k - 1] = t[k]

RECURSIVE Flatten(_)
Flatten(ss) == IF ss = <<>> THEN <<>> ELSE Head(ss) \o Flatten(Tail(ss))

\* (?:\\.|[^q])*q from inside the literal
RECURSIVE QuotedBody(_, _, _)
QuotedBody(s, j, q) ==
    IF j > Len(s) THEN <<>>
    ELSE
        (IF s[j] = "\\" /\ j + 1 <= Len(s) /\ s[j + 1] /= "\n"
         THEN QuotedBody(s, j + 2, q) ELSE <<>>)
        \o (IF s[j] /= q THEN QuotedBody(s, j + 1, q) ELSE <<>>)
        \o (IF s[j] = q THEN <<j + 1>> ELSE <<>>)

\* '(?:\\.|[^'])*' or "(?:\\.|[^"])*"
QuotedEnds(s, i, q) == IF At(s, i) = q THEN QuotedBody(s, i + 1, q) ELSE <<>>

\* [\S]+
WordEnds(s, i) ==
    Only({[k \in 1..(e - i) |-> e - k + 1] : e \in {RunEnd(s, i, NonSpace)}})

\* single quoted | double quoted | single word
ValueEnds(s, i) == QuotedEnds(s, i, "'") \o QuotedEnds(s, i, "\"") \o WordEnds(s, i)

\* one " " or one backslash-newline
SepNext(s, i) ==
    IF At(s, i) = " " THEN i + 1
    ELSE IF At(s, i) = "\\" /\ At(s, i + 1) = "\n" THEN i + 2
    ELSE 0

\* ( |\\\n)+
RECURSIVE SepEnds(_, _)
SepEnds(s, i) ==
    Only({IF n = 0 THEN <<>> ELSE SepEnds(s, n) \o <<n>> : n \in {SepNext(s, i)}})

\* (?:[\w]+=)? : where the value may start
KeyStarts(s, i) ==
    Only({(IF e > i /\ At(s, e) = "=" THEN <<e + 1>> ELSE <<>>) \o <<i>> :
             e \in {RunEnd(s, i, IsWord)}})

\* ( |\\\n)+(?:[\w]+=)?(...) : one parameter of the headline
ValuesAfter(s, keys) == Flatten([b \in 1..Len(keys) |-> ValueEnds(s, keys[b])])

GroupEnds(s, i) ==
    Only({Flatten([a \in 1..Len(seps) |->
                      Only({ValuesAfter(s, keys) : keys \in {KeyStarts(s, seps[a])}})]) :
             seps \in {SepEnds(s, i)}})

SetMax(S) == CHOOSE x \in S : \A y \in S : y <= x

\* \s*(?:\n|$)
EndingEnd(s, i) ==
    Only({IF stops = {} THEN 0
          ELSE IF At(s, SetMax(stops)) = "\n" THEN SetMax(stops) + 1 ELSE SetMax(stops) :
             stops \in {{j \in i..RunEnd(s, i, IsSpace) : At(s, j) = "\n" \/ j = Len(s) + 1}}})

\* (?: one parameter )* ending
RECURSIVE ParamsEnd(_, _)
RECURSIVE FirstParamsEnd(_, _, _)
ParamsEnd(s, i) ==
    Only({IF r /= 0 THEN r ELSE EndingEnd(s, i) :
             r \in {Only({FirstParamsEnd(s, ends, 1) : ends \in {GroupEnds(s, i)}})}})

FirstParamsEnd(s, ends, k) ==
    IF k > Len(ends) THEN 0
    ELSE Only({IF r /= 0 THEN r ELSE FirstParamsEnd(s, ends, k + 1) :
                  r \in {ParamsEnd(s, ends[k])}})

Marker == <<":", ":", ":">>

NoMatch == [start |-> 0, keyword |-> 0, keywordEnd |-> 0, end |-> 0]

\* RE_HEADLINE tried at one position
\* (?:^|\n): where the marker starts for a match that starts at p, 0 if none can
MarkerAt(s, p) ==
    IF p = 1 /\ StartsWith(s, 1, Marker) THEN 1
    ELSE IF At(s, p) = "\n" /\ StartsWith(s, p + 1, Marker) THEN p + 1
    ELSE 0

\* the keyword from position keyword on, and what follows it
KeywordAt(s, p, keyword) ==
    Only({IF keywordEnd = keyword THEN NoMatch
          ELSE Only({IF end = 0 THEN NoMatch
                     ELSE [start |-> p, keyword |-> keyword,
                           keywordEnd |-> keywordEnd, end |-> end] :
                        end \in {ParamsEnd(s, keywordEnd)}}) :
             keywordEnd \in {RunEnd(s, keyword, IsKeyChar)}})

HeadlineAt(s, p) ==
    Only({IF colons = 0 THEN NoMatch
          ELSE Only({KeywordAt(s, p, keyword) : keyword \in {RunEnd(s, colons + 3, IsBlank)}}) :
             colons \in {MarkerAt(s, p)}})

\* RE_HEADLINE.search(block): the leftmost match
RE_HEADLINE_search(block) ==
    Only({IF found = {} THEN NoMatch
          ELSE CHOOSE m \in found : \A r \in found : m.start <= r.start :
             found \in {{HeadlineAt(block, p) : p \in 1..Len(block)} \ {NoMatch}}})

test(block) == RE_HEADLINE_search(block).start /= 0

\* _extractHeadline that leaves the headline in the text after the match
_extractHeadline_keepsMatch(block) ==
    Only({[pre |-> SubSeq(block, 1, match.start - 1),
           type |-> SubSeq(block, match.keyword, match.keywordEnd - 1),
           params |-> SubSeq(block, match.keywordEnd, match.end - 1),
           post |-> SubSeq(block, match.start, Len(block))] :
             match \in {RE_HEADLINE_search(block)}})

\* run calls it on a block test has accepted: there is a match
_extractHeadline(block) ==
    Only({[pre |-> SubSeq(block, 1, match.start - 1),
           type |-> SubSeq(block, match.keyword, match.keywordEnd - 1),
           params |-> SubSeq(block, match.keywordEnd, match.end - 1),
           post |-> SubSeq(block, match.end, Len(block))] :
             match \in {RE_HEADLINE_search(block)}})

-----------------------------------------------------------------------------
(* _processParams *)

\* params.replace("\\\n", " ")
RECURSIVE ReplaceContinuations(_)
ReplaceContinuations(s) ==
    IF s = <<>> THEN <<>>
    ELSE IF StartsWith(s, 1, <<"\\", "\n">>)
         THEN <<" ">> \o ReplaceContinuations(SubSeq(s, 3, Len(s)))
         ELSE <<Head(s)>> \o ReplaceContinuations(Tail(s))

NoToken == [key |-> <<>>, param |-> <<>>, end |-> 0]

\* RE_PARAM tried at one position
\* the token whose value starts at position v, with the key given
TokenAt(s, key, v) ==
    Only({IF ends = <<>> THEN NoToken
          ELSE [key |-> key, param |-> SubSeq(s, v, Head(ends) - 1), end |-> Head(ends)] :
             ends \in {ValueEnds(s, v)}})

ParamAt(s, p) ==
    IF At(s, p) /= " " THEN NoToken
    ELSE Only({IF keyEnd > p + 1 /\ At(s, keyEnd) = "="
                  /\ TokenAt(s, SubSeq(s, p + 1, keyEnd - 1), keyEnd + 1) /= NoToken
               THEN TokenAt(s, SubSeq(s, p + 1, keyEnd - 1), keyEnd + 1)
               ELSE TokenAt(s, <<>>, p + 1) :
                  keyEnd \in {RunEnd(s, p + 1, IsKeyChar)}})

\* RE_PARAM.findall(params)
RECURSIVE RE_PARAM_findall(_, _)
RE_PARAM_findall(s, from) ==
    IF from > Len(s) THEN <<>>
    ELSE Only({IF m = NoToken THEN RE_PARAM_findall(s, from + 1)
               ELSE <<m>> \o RE_PARAM_findall(s, m.end) :
                  m \in {ParamAt(s, from)}})

\* Python's eval of a text that is one or more adjacent string literals
Raised(what) == [raised |-> what, value |-> <<>>]
Value(v) == [raised |-> "none", value |-> v]

\* the text of one escape sequence, for the characters of the model
Unescape(c) ==
    IF c \in {"'", "\"", "\\"} THEN <<c>>
    ELSE IF c = "\n" THEN <<>>
    ELSE <<"\\", c>>

\* the body of a '...' or "..." literal from position j: the value, and where the literal ends
RECURSIVE LiteralBody(_, _, _, _)
LiteralBody(s, j, q, acc) ==
    IF j > Len(s) THEN [raised |-> "SyntaxError", value |-> <<>>, end |-> 0]
    ELSE IF s[j] = q THEN [raised |-> "none", value |-> acc, end |-> j + 1]
    ELSE IF s[j] = "\n" THEN [raised |-> "SyntaxError", value |-> <<>>, end |-> 0]
    ELSE IF s[j] = "\\"
         THEN IF j + 1 > Len(s) THEN [raised |-> "SyntaxError", value |-> <<>>, end |-> 0]
              ELSE LiteralBody(s, j + 2, q, acc \o Unescape(s[j + 1]))
    ELSE LiteralBody(s, j + 1, q, Append(acc, s[j]))

\* the literals from position i on, concatenated
RECURSIVE Literals(_, _, _)
Literals(s, i, acc) ==
    Only({IF start > Len(s) THEN Value(acc)
          ELSE IF s[start] \notin {"'", "\""} THEN Raised("SyntaxError")
          ELSE IF StartsWith(s, start, <<s[start], s[start], s[start]>>)
               THEN Raised("SyntaxError")
          ELSE Only({IF lit.raised /= "none" THEN Raised(lit.raised)
                     ELSE Literals(s, lit.end, acc \o lit.value) :
                        lit \in {LiteralBody(s, start + 1, s[start], <<>>)}}) :
             start \in {RunEnd(s, i, IsBlank)}})

eval(s) == Literals(s, 1, <<>>)

Quoted(param, q) == param[1] = q /\ param[Len(param)] = q

\* the body of the loop over the tokens, on what the tokens before left
\* if param[0] == param[-1] == '"': param = eval(param)
EvalDouble(param) == IF Quoted(param, "\"") THEN eval(param) ELSE Value(param)

\* if param[0] == param[-1] == "'": param = eval(param), on what the first gave
EvalSingle(first) ==
    IF first.raised /= "none" THEN first
    ELSE IF first.value = <<>> THEN Raised("IndexError")
    ELSE IF Quoted(first.value, "'") THEN eval(first.value)
    ELSE first

ProcessToken(st, tok) ==
    IF st.raised /= "none" THEN st
    ELSE Only({IF second.raised /= "none" THEN [st EXCEPT !.raised = second.raised]
               ELSE IF tok.key /= <<>>
                    THEN [st EXCEPT !.kwds = DictSet(@, tok.key, second.value)]
                    ELSE [st EXCEPT !.args = Append(@, second.value)] :
                  second \in {EvalSingle(EvalDouble(tok.param))}})

RECURSIVE ProcessTokens(_, _)
ProcessTokens(st, toks) ==
    IF toks = <<>> THEN st
    ELSE Only({ProcessTokens(s1, Tail(toks)) : s1 \in {ProcessToken(st, Head(toks))}})

_processParams(text) ==
    Only({ProcessTokens([raised |-> "none", args |-> <<>>, kwds |-> <<>>], toks) :
             toks \in {Only({RE_PARAM_findall(replaced, 1) :
                                replaced \in {ReplaceContinuations(text)}})}})

-----------------------------------------------------------------------------
(* _indentedContent, with the host's detab *)

tab_length == 4

RECURSIVE Split(_, _)
\* text.split(sep), for a one-character separator
Split(s, sep) ==
    IF \A i \in 1..Len(s) : s[i] /= sep THEN <<s>>
    ELSE Only({<<SubSeq(s, 1, i - 1)>>
                  \o Only({Split(rest, sep) : rest \in {SubSeq(s, i + 1, Len(s))}}) :
                  i \in {CHOOSE k \in 1..Len(s) : s[k] = sep /\ \A j \in 1..(k - 1) : s[j] /= sep}})

RECURSIVE Join(_, _)
\* sep.join(parts)
Join(parts, sep) ==
    IF parts = <<>> THEN <<>>
    ELSE IF Len(parts) = 1 THEN parts[1]
    ELSE parts[1] \o sep \o Join(Tail(parts), sep)

Indented(line) == Len(line) >= tab_length /\ \A i \in 1..tab_length : line[i] = " "
BlankLine(line) == \A i \in 1..Len(line) : IsSpace(line[i])

\* BlockProcessor.detab(block): the leading lines that are indented or blank,
\* the indentation removed, and the lines from the first other line on
\* how many leading lines are indented or blank
Detabbed(lines) ==
    IF \A i \in 1..Len(lines) : Indented(lines[i]) \/ BlankLine(lines[i])
    THEN Len(lines)
    ELSE (CHOOSE i \in 1..Len(lines) :
             /\ ~(Indented(lines[i]) \/ BlankLine(lines[i]))
             /\ \A j \in 1..(i - 1) : Indented(lines[j]) \/ BlankLine(lines[j])) - 1

detab(text) ==
    Only({Only({[indented |->
                    Join([i \in 1..n |->
                             IF Indented(lines[i])
                             THEN SubSeq(lines[i], tab_length + 1, Len(lines[i]))
                             ELSE <<>>],
                         <<"\n">>),
                 unindented |-> Join(SubSeq(lines, n + 1, Len(lines)), <<"\n">>)] :
                   n \in {Detabbed(lines)}}) :
             lines \in {Split(text, "\n")}})

RECURSIVE ContentLoop_readsOn(_, _)
\* ContentLoop that does not stop at an unindented remainder
ContentLoop_readsOn(queue, parts) ==
    IF queue = <<>> THEN [blocks |-> queue, parts |-> parts]
    ELSE Only({ContentLoop_readsOn(Tail(queue),
                                   IF d.indented /= <<>> THEN Append(parts, d.indented)
                                   ELSE parts) :
                  d \in {detab(Head(queue))}})

RECURSIVE ContentLoop(_, _)
\* the while loop of _indentedContent, on the queue and the parts gathered so far
ContentLoop(queue, parts) ==
    IF queue = <<>> THEN [blocks |-> queue, parts |-> parts]
    ELSE Only({IF d.unindented /= <<>>
               THEN [blocks |-> <<d.unindented>> \o Tail(queue),
                     parts |-> IF d.indented /= <<>> THEN Append(parts, d.indented) ELSE parts]
               ELSE ContentLoop(Tail(queue),
                                IF d.indented /= <<>> THEN Append(parts, d.indented) ELSE parts) :
                  d \in {detab(Head(queue))}})

_indentedContent(queue) ==
    Only({[blocks |-> r.blocks, content |-> Join(r.parts, <<"\n", "\n">>)] :
             r \in {ContentLoop(queue, <<>>)}})

-----------------------------------------------------------------------------
(* run, line by line.  The locals of run are the fields of a frame; a line  *)
(* that follows a raise leaves the frame as it is.                          *)

\* RE_END.sub("", text): the pattern is anchored at the start of the text;
\* its first alternative, $, matches at the end and before a final newline
RE_END_sub(text) ==
    IF ~StartsWith(text, 1, Marker) THEN text
    ELSE IF Len(text) = 3 \/ (Len(text) = 4 /\ text[4] = "\n") THEN SubSeq(text, 4, Len(text))
    ELSE IF text[4] = "\n" THEN SubSeq(text, 5, Len(text))
    ELSE text

PyNone == [py |-> "None"]
Unbound == [py |-> "unbound"]

Function(name, signature, returns) ==
    [py |-> "function", name |-> name, signature |-> signature, returns |-> returns]

Symbol(text) == [py |-> "str", text |-> text]

Parameter(name, kind, default) ==
    [name |-> name, kind |-> kind, default |-> default, annotation |-> "empty"]

\* generators.container, the default of the "fallback" setting
container ==
    Function("container",
             <<Parameter(NameCtx, POK, Empty),
               Parameter(<<"a", "r", "g", "s">>, VP, Empty),
               Parameter(<<"k", "w", "d", "s">>, VK, Empty)>>,
             "Element")

\* the generators found at the entry points: one, for the type kk
_installed_generators ==
    << <<<<"k", "k">>,
         Function("installed", <<Parameter(NameCtx, POK, Empty),
                                 Parameter(<<"a">>, POK, <<"d">>)>>, "bytes")>> >>

\* what importlib.import_module and getattr find: a module m with a function
\* g and an attribute v that is not callable
Importable == {<<"m">>}
Attributes ==
    << <<<<"g">>, Function("g", <<Parameter(<<"a">>, POK, Empty)>>, "str")>>,
       <<<<"v">>, [py |-> "int"]>> >>

callable(value) == value.py = "function"

Found(raisedAs, value) == [raised |-> raisedAs, value |-> value]

\* symbolname.split(":", 1), importlib.import_module, getattr
ImportSymbol(text) ==
    IF \A i \in 1..Len(text) : text[i] /= ":" THEN Found("ValueError", Unbound)
    ELSE Only({IF parts[1] \notin Importable THEN Found("ModuleNotFoundError", Unbound)
               ELSE IF ~DictHas(Attributes, parts[2]) THEN Found("AttributeError", Unbound)
               ELSE IF ~callable(DictGet(Attributes, parts[2]))
                    THEN Found("ValueError", Unbound)
               ELSE Found("none", DictGet(Attributes, parts[2])) :
                  parts \in {Only({<<SubSeq(text, 1, i - 1), SubSeq(text, i + 1, Len(text))>> :
                                      i \in {IndexOf(text, ":")}})}})

_getGenerator(symbolname) ==
    IF callable(symbolname) THEN Found("none", symbolname)
    ELSE IF symbolname.py /= "str" THEN Found("AttributeError", Unbound)
    ELSE ImportSymbol(symbolname.text)

\* lines 246-250
RunExtract(s) ==
    Only({[s EXCEPT !.blocktype = h.type,
                    !.params = h.params,
                    !.chunks = IF h.pre /= <<>> THEN Append(@, h.pre) ELSE @,
                    !.blocks = <<h.post>> \o Tail(@)] :
             h \in {_extractHeadline(Head(s.blocks))}})

\* line 251
RunTokens(s) ==
    Only({IF r.raised /= "none" THEN [s EXCEPT !.raised = r.raised]
          ELSE [s EXCEPT !.args = r.args, !.kwds = r.kwds] :
             r \in {_processParams(s.params)}})

\* lines 252-255
RunContent(s) ==
    IF s.raised /= "none" THEN s
    ELSE Only({[s EXCEPT !.content = r.content,
                         !.blocks = IF r.blocks /= <<>>
                                    THEN <<RE_END_sub(Head(r.blocks))>> \o Tail(r.blocks)
                                    ELSE r.blocks] :
                  r \in {_indentedContent(s.blocks)}})

\* lines 257-258
RunResolve(s, settings) ==
    IF s.raised /= "none" THEN s
    ELSE Only({Only({IF g.raised /= "none" THEN [s EXCEPT !.raised = g.raised]
                     ELSE [s EXCEPT !.generator = g.value] :
                        g \in {_getGenerator(IF DictHas(generators, s.blocktype)
                                             THEN DictGet(generators, s.blocktype)
                                             ELSE container)}}) :
                  generators \in {DictUpdate(_installed_generators, settings.generators)}})

\* lines 260-268
RunContext(s) ==
    IF s.raised /= "none" THEN s
    ELSE [s EXCEPT !.ctx = [type |-> s.blocktype, content |-> s.content],
                   !.Meta = IF @ = "unset" THEN "empty" ELSE @]

\* line 270; args is emptied in place, kwds is bound to the named output
RunAdapt(s) ==
    IF s.raised /= "none" THEN s
    ELSE Only({[s EXCEPT !.sig = s.generator.signature,
                         !.inargs = s.args,
                         !.inkwds = s.kwds,
                         !.args = r.args,
                         !.kwds = r.outkwds,
                         !.outargs = r.outargs,
                         !.outkwds = r.outkwds,
                         !.warnings = r.warnings] :
                  r \in {_adaptParams(s.generator.signature, s.blocktype,
                                      s.args, s.kwds, s.warnings)}})

\* lines 272-281
RunCall(s) ==
    IF s.raised /= "none" THEN s
    ELSE Only({IF r.raised /= "none" THEN [s EXCEPT !.result = r, !.raised = r.raised]
               ELSE [s EXCEPT !.result = r,
                              !.parent = IF s.generator.returns = "None" THEN @
                                         ELSE Append(@, s.generator.name)] :
                  r \in {Call(s.sig, s.outargs, s.kwds)}})

-----------------------------------------------------------------------------
(* The signatures and the tokens the binder is run on. *)

BlockType == <<"t">>

ParamChoices ==
    {[name |-> NameCtx, kind |-> k, default |-> Empty, annotation |-> "empty"] :
        k \in {PO, POK, KO}}
    \cup {[name |-> <<"f">>, kind |-> k, default |-> d, annotation |-> "empty"] :
        k \in {PO, POK, KO}, d \in {PyTrue, PyFalse}}
    \cup {[name |-> <<"f">>, kind |-> k, default |-> Empty, annotation |-> "bool"] :
        k \in {PO, POK, KO}}
    \cup {[name |-> <<"a">>, kind |-> k, default |-> d, annotation |-> "empty"] :
        k \in {PO, POK, KO}, d \in {Empty, <<"d">>}}
    \cup {[name |-> <<"v">>, kind |-> VP, default |-> Empty, annotation |-> "empty"]}
    \cup {[name |-> <<"w">>, kind |-> VK, default |-> Empty, annotation |-> "empty"]}

KindRank(kind) ==
    CASE kind = PO -> 1 [] kind = POK -> 2 [] kind = VP -> 3 [] kind = KO -> 4 [] kind = VK -> 5

\* what Python accepts as a def: kinds in order, names unique, no
\* positional parameter without a default after one with a default
ValidSignature(s) ==
    /\ \A i, j \in 1..Len(s) : i < j =>
          /\ s[i].name /= s[j].name
          /\ KindRank(s[i].kind) <= KindRank(s[j].kind)
          /\ (s[i].kind \in {PO, POK} /\ s[j].kind \in {PO, POK} /\ s[i].default /= Empty)
                => s[j].default /= Empty

SeqsUpTo(S, n) == UNION {[1..m -> S] : m \in 0..n}

Signatures == {s \in SeqsUpTo(ParamChoices, MaxParams) : ValidSignature(s)}

ArgTokens == {<<"f">>, <<"n", "o", "f">>, <<"x">>}

KwdChoices ==
    {<<>>,
     << <<<<"f">>, <<"1">>>> >>,
     << <<<<"a">>, <<"2">>>> >>,
     << <<<<"f">>, <<"1">>>>, <<<<"a">>, <<"2">>>> >>,
     << <<<<"a">>, <<"2">>>>, <<<<"f">>, <<"1">>>> >>}

NoResult == [raised |-> "none", received |-> <<>>]

NoConfig == [generators |-> <<>>, fallback |-> <<>>]
NoCtx == [type |-> <<>>, content |-> <<>>]

\* the values of the variables a specification does not use
IdleHost ==
    /\ blocks = <<>>
    /\ chunks = <<>>
    /\ parent = <<>>
    /\ config = NoConfig
    /\ Meta = "unset"

IdleText ==
    /\ blocktype = <<>>
    /\ params = <<>>
    /\ raised = "none"
    /\ content = <<>>
    /\ generator = <<>>
    /\ ctx = NoCtx

IdleBind ==
    /\ sig = <<>>
    /\ inargs = <<>>
    /\ inkwds = <<>>
    /\ outargs = <<>>
    /\ outkwds = <<>>
    /\ warnings = <<>>
    /\ result = NoResult

-----------------------------------------------------------------------------
(* SpecBind: _adaptParams on every signature and token list, then the call *)

InitBind ==
    /\ pc = "call"
    /\ sig \in Signatures
    /\ args \in SeqsUpTo(ArgTokens, MaxArgs)
    /\ kwds \in KwdChoices
    /\ inargs = args
    /\ inkwds = kwds
    /\ outargs = <<>>
    /\ outkwds = <<>>
    /\ warnings = <<>>
    /\ result = NoResult
    /\ IdleHost
    /\ IdleText

\* lines 179-190
AdaptFlags ==
    /\ pc = "call"
    /\ LET f == TurnFlags(sig, [args |-> args, kwds |-> kwds])
       IN  /\ args' = f.args
           /\ kwds' = f.kwds
    /\ pc' = "flags"
    /\ UNCHANGED <<hostVars, textVars, bindVars>>

\* lines 192-234
AdaptWalk ==
    /\ pc = "flags"
    /\ LET r == WalkAndOverflow(sig, BlockType, args, kwds, warnings)
       IN  /\ args' = r.args
           /\ kwds' = r.kwds
           /\ outargs' = r.outargs
           /\ outkwds' = r.outkwds
           /\ warnings' = r.warnings
    /\ pc' = "adapted"
    /\ UNCHANGED <<hostVars, textVars, sig, inargs, inkwds, result>>

\* line 272
Invoke ==
    /\ pc = "adapted"
    /\ result' = Call(sig, outargs, outkwds)
    /\ pc' = "invoked"
    /\ UNCHANGED <<hostVars, textVars, args, kwds, sig, inargs, inkwds, outargs, outkwds, warnings>>

NextBind == AdaptFlags \/ AdaptWalk \/ Invoke

SpecBind == InitBind /\ [][NextBind]_vars

-----------------------------------------------------------------------------
(* Properties of _adaptParams, stated from the arguments of the walk rather *)
(* than by its loop.                                                        *)

\* the parameters the walk resolves a value for
Regular(signature) ==
    {i \in 1..Len(signature) :
        signature[i].name /= NameCtx /\ signature[i].kind \in {PO, POK, KO}}

\* the parameter has a usable named token
TakesKey(signature, k, i) ==
    i \in Regular(signature) /\ DictHas(k, signature[i].name) /\ signature[i].kind /= PO

\* the parameter would take a positional token
WantsPos(signature, k, i) ==
    i \in Regular(signature) /\ ~TakesKey(signature, k, i) /\ signature[i].kind /= KO

\* its rank among the parameters that would take a positional token
PosRank(signature, k, i) == Cardinality({j \in 1..i : WantsPos(signature, k, j)})

TakesPos(signature, a, k, i) ==
    WantsPos(signature, k, i) /\ PosRank(signature, k, i) <= Len(a)

IsMissing(signature, a, k, i) ==
    /\ i \in Regular(signature)
    /\ ~TakesKey(signature, k, i)
    /\ ~TakesPos(signature, a, k, i)
    /\ signature[i].default = Empty

Resolved(signature, a, k, i) ==
    IF TakesKey(signature, k, i) THEN DictGet(k, signature[i].name)
    ELSE IF TakesPos(signature, a, k, i) THEN a[PosRank(signature, k, i)]
    ELSE IF signature[i].default /= Empty THEN signature[i].default
    ELSE EmptyStr

\* the parameters whose value is appended to outargs, and the place of each
GoesPositional(signature) ==
    {i \in 1..Len(signature) :
        signature[i].name = NameCtx
        \/ (i \in Regular(signature) /\ signature[i].kind /= KO)}

PlaceInOutargs(signature, i) == Cardinality({j \in GoesPositional(signature) : j <= i})

\* how many positional tokens the walk consumes
Consumed(signature, a, k) ==
    Cardinality({i \in 1..Len(signature) : TakesPos(signature, a, k, i)})

WithMessage(w, message) == SelectSeq(w, LAMBDA x : x.message = message)

Count(l, x) == Cardinality({i \in 1..Len(l) : l[i] = x})

DictValues(d) == [i \in 1..Len(d) |-> d[i][2]]

WalkStep == pc = "flags" /\ pc' = "adapted"

\* C9: the signature walk resolves each non-variadic, non-ctx parameter, in
\* declaration order, from its named token (unless positional-only, removing
\* the entry), else from the first remaining positional token (unless
\* keyword-only, removing the token), else from its default, else as "" with
\* a missing-attribute warning; the value goes to outkwds exactly when the
\* parameter is keyword-only and otherwise to outargs in declaration order.
C9_SignatureWalk ==
    [][WalkStep =>
        /\ \A i \in Regular(sig) :
              IF sig[i].kind = KO
              THEN /\ DictHas(outkwds', sig[i].name)
                   /\ DictGet(outkwds', sig[i].name) = Resolved(sig, args, kwds, i)
              ELSE /\ PlaceInOutargs(sig, i) <= Len(outargs')
                   /\ outargs'[PlaceInOutargs(sig, i)] = Resolved(sig, args, kwds, i)
        /\ Len(outargs') = Cardinality(GoesPositional(sig))
                            + (IF HasKind(sig, VP) THEN Len(args')  ELSE 0)
        /\ {outkwds'[i][1] : i \in 1..Len(outkwds')} =
              {sig[i].name : i \in {j \in Regular(sig) : sig[j].kind = KO}}
              \cup (IF HasKind(sig, VK) THEN {kwds'[i][1] : i \in 1..Len(kwds')} ELSE {})
        /\ args' = SubSeq(args, Consumed(sig, args, kwds) + 1, Len(args))
        /\ kwds' = SelectSeq(kwds, LAMBDA e :
                      ~\E i \in 1..Len(sig) : sig[i].name = e[1] /\ TakesKey(sig, kwds, i))
        /\ {w.subject : w \in Range(WithMessage(warnings', "missing mandatory attribute"))}
              = {sig[i].name : i \in {j \in 1..Len(sig) : IsMissing(sig, args, kwds, j)}}
    ]_vars

\* a walk where one parameter is bound by name, one by position, with a token to spare
C9_Witness ==
    /\ pc = "adapted"
    /\ \E i, j \in Regular(sig) :
          /\ i < j
          /\ TakesPos(sig, TurnFlags(sig, [args |-> inargs, kwds |-> inkwds]).args,
                      TurnFlags(sig, [args |-> inargs, kwds |-> inkwds]).kwds, j)
          /\ TakesKey(sig, TurnFlags(sig, [args |-> inargs, kwds |-> inkwds]).kwds, i)
    /\ Len(outargs) + Len(outkwds) = 2

\* C3: a non-variadic parameter other than ctx with no default, no usable
\* named token and no remaining positional token is bound to "" with exactly
\* one "missing mandatory attribute" warning naming it; the walk goes on and
\* binds the other parameters.
C3_MissingMandatory ==
    [][WalkStep =>
        /\ \A i \in 1..Len(sig) : IsMissing(sig, args, kwds, i) =>
              /\ Count([j \in 1..Len(warnings') |-> <<warnings'[j].message, warnings'[j].subject>>],
                       <<"missing mandatory attribute", sig[i].name>>) = 1
              /\ IF sig[i].kind = KO
                 THEN DictHas(outkwds', sig[i].name) /\ DictGet(outkwds', sig[i].name) = EmptyStr
                 ELSE /\ PlaceInOutargs(sig, i) <= Len(outargs')
                      /\ outargs'[PlaceInOutargs(sig, i)] = EmptyStr
        /\ Len(WithMessage(warnings', "missing mandatory attribute"))
              = Cardinality({i \in 1..Len(sig) : IsMissing(sig, args, kwds, i)})
        /\ Len(outargs') >= Cardinality(GoesPositional(sig))
        /\ \A i \in Regular(sig) : sig[i].kind = KO => DictHas(outkwds', sig[i].name)
    ]_vars

\* a missing first parameter, and a later parameter that is still bound by name
C3_Witness ==
    /\ pc = "adapted"
    /\ Len(sig) = 2
    /\ sig[1].name = <<"a">>
    /\ sig[2].name = <<"f">>
    /\ inargs = <<>>
    /\ outargs = <<EmptyStr, <<"1">>>>
    /\ Len(WithMessage(warnings, "missing mandatory attribute")) = 1

\* C4: without a var-positional parameter, the k positional tokens the walk
\* left unbound give exactly k "ignored extra attribute" warnings, in token
\* order, and none of them is in outargs or outkwds.
C4_ExcessPositional ==
    [][(WalkStep /\ ~HasKind(sig, VP)) =>
        LET n == Consumed(sig, args, kwds)
            excess == SubSeq(args, n + 1, Len(args))
        IN  /\ WithMessage(warnings', "ignored extra attribute")
                 = [i \in 1..Len(excess) |->
                       Warning(BlockType, "ignored extra attribute", excess[i])]
            /\ \A t \in ArgTokens :
                  Count(outargs', t) + Count(DictValues(outkwds'), t)
                     = Count(SubSeq(args, 1, n), t)
    ]_vars

\* two excess tokens after one was bound
C4_Witness ==
    /\ pc = "adapted"
    /\ ~HasKind(sig, VP)
    /\ Len(inargs) = 3
    /\ Len(outargs) = 1
    /\ outargs[1] = inargs[1]
    /\ Len(WithMessage(warnings, "ignored extra attribute")) = 2

FlagParams(signature) ==
    {i \in 1..Len(signature) :
        /\ signature[i].kind \in {PO, POK, KO}
        /\ signature[i].name /= NameCtx
        /\ IsFlag(signature[i])}

\* C2: a parameter with a boolean default or hint, of any kind, receives True
\* when its bare name is among the positional tokens, False when "no" + name
\* is, and its default when neither is (and nothing else is supplied).
C2_FlagBinding ==
    (pc = "invoked" /\ result.raised = "none") =>
        \A i \in FlagParams(sig) :
            LET name == sig[i].name
                noname == <<"n", "o">> \o name
            IN  /\ (InList(inargs, name) /\ ~InList(inargs, noname))
                      => result.received[i] = PyTrue
                /\ (InList(inargs, noname) /\ ~InList(inargs, name))
                      => result.received[i] = PyFalse
                /\ (inargs = <<>> /\ inkwds = <<>> /\ sig[i].default /= Empty)
                      => result.received[i] = sig[i].default

\* C8: a generator that declares ctx, of whatever kind and place, is called
\* with ctx bound to the CallContext.
C8_CtxBinding ==
    (pc = "invoked" /\ Declares(sig, NameCtx)) =>
        /\ result.raised = "none"
        /\ \A i \in 1..Len(sig) : sig[i].name = NameCtx => result.received[i] = CtxObj

-----------------------------------------------------------------------------
(* SpecTok: _processParams on the parameter text of every short headline *)

TokChars == {" ", "'", "\"", "\\", "k", "=", "\n"}

HeadOfBlock == <<":", ":", ":", "k">>

\* the texts _extractHeadline returns as params for a block ":::k" + text
\* a parameter text is empty or starts with a separator or with whitespace
ParamTexts ==
    {<<>>} \cup {<<c>> \o t : c \in {" ", "\n"}, t \in SeqsUpTo(TokChars, MaxText - 1)}
           \cup {<<"\\", "\n">> \o t : t \in SeqsUpTo(TokChars, MaxText - 2)}

\* the text is what _extractHeadline returns as params for the block ":::k" + text
HeadlineParams(p) ==
    test(HeadOfBlock \o p) /\ _extractHeadline(HeadOfBlock \o p).params = p

InitTok ==
    /\ pc = "params"
    /\ params \in ParamTexts
    /\ HeadlineParams(params)
    /\ blocktype = <<>>
    /\ args = <<>>
    /\ kwds = <<>>
    /\ raised = "none"
    /\ content = <<>>
    /\ generator = <<>>
    /\ ctx = NoCtx
    /\ IdleHost
    /\ IdleBind

\* lines 145-166
ProcessParams ==
    /\ pc = "params"
    /\ LET r == _processParams(params)
       IN  /\ raised' = r.raised
           /\ args' = IF r.raised = "none" THEN r.args ELSE <<>>
           /\ kwds' = IF r.raised = "none" THEN r.kwds ELSE <<>>
    /\ pc' = "tokens"
    /\ UNCHANGED <<hostVars, bindVars, blocktype, params, content, generator, ctx>>

NextTok == ProcessParams

SpecTok == InitTok /\ [][NextTok]_vars

\* a text that is one quoted literal: the quote, a body in which every quote
\* is escaped, the quote
IsLiteral(t, q) ==
    /\ Len(t) >= 2
    /\ t[1] = q
    /\ LiteralBody(t, 2, q, <<>>).raised = "none"
    /\ LiteralBody(t, 2, q, <<>>).end = Len(t) + 1

\* its content, the escapes interpreted once
LiteralValue(t, q) == LiteralBody(t, 2, q, <<>>).value

\* C6: a quoted parameter token, positional or after key=, yields exactly one
\* value: the content of the literal, the outer quotes removed once and the
\* escapes interpreted once.
C6_QuotedLiterals ==
    pc = "tokens" =>
        \A q \in {"'", "\""} :
            \A n \in 1..Len(params) :
                LET t == SubSeq(params, n + 1, Len(params))
                IN  IsLiteral(t, q) =>
                        /\ (n = 1 /\ params[1] = " ") =>
                              /\ raised = "none"
                              /\ args = <<LiteralValue(t, q)>>
                              /\ kwds = <<>>
                        /\ (n = 3 /\ SubSeq(params, 1, 3) = <<" ", "k", "=">>) =>
                              /\ raised = "none"
                              /\ args = <<>>
                              /\ kwds = << <<<<"k">>, LiteralValue(t, q)>> >>

\* a token that opens with a quote and holds no second one, nor whitespace
Unterminated(t) ==
    /\ Len(t) >= 1
    /\ t[1] \in {"'", "\""}
    /\ \A i \in 2..Len(t) : t[i] /= t[1] /\ NonSpace(t[i])

\* C7: an unterminated quote does not make the tokenizer fail: the token is
\* the word up to the next whitespace, returned verbatim.
C7_MalformedQuoting ==
    pc = "tokens" =>
        /\ (Len(params) >= 2 /\ params[1] = " " /\ Unterminated(Tail(params))) =>
              /\ raised = "none"
              /\ args = <<Tail(params)>>
              /\ kwds = <<>>
        /\ (Len(params) >= 4 /\ SubSeq(params, 1, 3) = <<" ", "k", "=">>
                /\ Unterminated(SubSeq(params, 4, Len(params)))) =>
              /\ raised = "none"
              /\ args = <<>>
              /\ kwds = << <<<<"k">>, SubSeq(params, 4, Len(params))>> >>

-----------------------------------------------------------------------------
(* SpecContent: _indentedContent on every short queue *)

Indent == <<" ", " ", " ", " ">>

ContentBlocks ==
    {Indent \o <<"a">>,
     <<"b">>,
     Indent \o <<"a", "\n", "b">>,
     <<>>,
     <<" ", "\n">> \o Indent \o <<"c">>,
     Indent \o <<"a", "\n", "\n">> \o Indent \o <<"c">>}

InitContent ==
    /\ pc = "queue"
    /\ blocks \in SeqsUpTo(ContentBlocks, MaxBlocks)
    /\ chunks = <<>>
    /\ parent = <<>>
    /\ config = NoConfig
    /\ Meta = "unset"
    /\ args = <<>>
    /\ kwds = <<>>
    /\ IdleText
    /\ IdleBind

\* lines 128-143
IndentedContent ==
    /\ pc = "queue"
    /\ LET r == _indentedContent(blocks)
       IN  /\ blocks' = r.blocks
           /\ content' = r.content
    /\ pc' = "content"
    /\ UNCHANGED <<chunks, parent, config, Meta, blocktype, params, raised, generator, ctx,
                   bindVars, args, kwds>>

NextContent == IndentedContent

SpecContent == InitContent /\ [][NextContent]_vars

\* the first block of the queue with an unindented remainder, 0 if there is none
FirstUnindented(queue) ==
    IF \A i \in 1..Len(queue) : detab(queue[i]).unindented = <<>> THEN 0
    ELSE CHOOSE i \in 1..Len(queue) :
            /\ detab(queue[i]).unindented /= <<>>
            /\ \A j \in 1..(i - 1) : detab(queue[j]).unindented = <<>>

\* the blocks the accumulator reads
Leading(queue) ==
    IF FirstUnindented(queue) = 0 THEN queue ELSE SubSeq(queue, 1, FirstUnindented(queue))

\* C5: the content is the non-empty indented portions of the leading blocks,
\* in queue order, joined by a blank line; accumulation stops at the first
\* block with an unindented remainder, which becomes the first block of the
\* queue, the blocks after it untouched; with no such block the queue ends empty.
C5_ContentAccumulation ==
    [][(pc = "queue" /\ pc' = "content") =>
        LET stop == FirstUnindented(blocks)
            portions == SelectSeq([i \in 1..Len(Leading(blocks)) |-> detab(blocks[i]).indented],
                                  LAMBDA x : x /= <<>>)
        IN  /\ content' = Join(portions, <<"\n", "\n">>)
            /\ stop = 0 => blocks' = <<>>
            /\ stop /= 0 =>
                  /\ blocks' = <<detab(blocks[stop]).unindented>>
                                  \o SubSeq(blocks, stop + 1, Len(blocks))
                  /\ Len(blocks') = Len(blocks) - stop + 1
    ]_vars

\* two portions joined, a remainder pushed back, a block after it left alone
C5_Witness ==
    /\ pc = "content"
    /\ content = <<"a", "\n", "\n", "a">>
    /\ blocks = <<<<"b">>, Indent \o <<"a">>>>

-----------------------------------------------------------------------------
(* SpecRun: the host's loop over a queue, run called whenever test accepts  *)
(* the first block.  SpecHost is the same loop, the host never pausing.     *)

MaxPieces == 4

Pieces == {Marker, <<"k">>, <<" ">>, <<"\n">>, Indent \o <<"k">>}

\* the first blocks: the short texts in which test finds a headline
Headlines == {b \in {Flatten(q) : q \in SeqsUpTo(Pieces, MaxPieces)} : test(b)}

\* the blocks that follow the first
Tails ==
    {<<>>,
     <<Indent \o <<"k">>>>,
     <<Indent \o <<"k", "\n">> \o Marker \o <<"\n", "k">>, <<"k">>>>,
     <<<<"k">>, Indent \o <<"k">>>>,
     <<Marker \o <<"\n">>, Marker \o <<"k", "k">>>>}

G == Function("G", <<Parameter(<<"a">>, POK, Empty), Parameter(NameCtx, POK, Empty)>>, "None")

Configs ==
    {[generators |-> <<>>, fallback |-> container],
     [generators |-> <<>>, fallback |-> G],
     [generators |-> << <<<<"k">>, PyNone>> >>, fallback |-> container],
     [generators |-> << <<<<"k">>, G>> >>, fallback |-> container],
     [generators |-> << <<<<"k">>, Symbol(<<"m", ":", "g">>)>> >>, fallback |-> container],
     [generators |-> << <<<<"k">>, Symbol(<<"m", ":", "v">>)>> >>, fallback |-> container],
     [generators |-> << <<<<"k", "k">>, G>> >>, fallback |-> container]}

InitRun ==
    /\ pc = "host"
    /\ blocks \in {<<h>> \o t : h \in Headlines, t \in Tails}
    /\ config \in Configs
    /\ chunks = <<>>
    /\ parent = <<>>
    /\ Meta = "unset"
    /\ blocktype = <<>>
    /\ params = <<>>
    /\ raised = "none"
    /\ content = <<>>
    /\ generator = Unbound
    /\ ctx = NoCtx
    /\ args = <<>>
    /\ kwds = <<>>
    /\ IdleBind

\* the locals of run at its first line
Frame ==
    [blocks |-> blocks, chunks |-> chunks, parent |-> parent, Meta |-> Meta,
     blocktype |-> <<>>, params |-> <<>>, raised |-> "none", content |-> <<>>,
     generator |-> Unbound, ctx |-> NoCtx, sig |-> <<>>, args |-> <<>>, kwds |-> <<>>,
     inargs |-> <<>>, inkwds |-> <<>>, outargs |-> <<>>, outkwds |-> <<>>,
     warnings |-> warnings, result |-> NoResult]

\* lines 245-281
Run ==
    /\ pc = "host"
    /\ blocks /= <<>>
    /\ test(Head(blocks))
    /\ \E s1 \in {RunExtract(Frame)} :
       \E s2 \in {RunTokens(s1)} :
       \E s3 \in {RunContent(s2)} :
       \E s4 \in {RunResolve(s3, config)} :
       \E s5 \in {RunContext(s4)} :
       \E s6 \in {RunAdapt(s5)} :
       \E s \in {RunCall(s6)} :
          /\ blocks' = s.blocks
          /\ chunks' = s.chunks
          /\ parent' = s.parent
          /\ Meta' = s.Meta
          /\ blocktype' = s.blocktype
          /\ params' = s.params
          /\ raised' = s.raised
          /\ content' = s.content
          /\ generator' = s.generator
          /\ ctx' = s.ctx
          /\ sig' = s.sig
          /\ args' = s.args
          /\ kwds' = s.kwds
          /\ inargs' = s.inargs
          /\ inkwds' = s.inkwds
          /\ outargs' = s.outargs
          /\ outkwds' = s.outkwds
          /\ warnings' = s.warnings
          /\ result' = s.result
          /\ pc' = IF s.raised = "none" THEN "host" ELSE "raised"
    /\ UNCHANGED config

\* test refuses the first block: another processor of the host takes it
HostConsume ==
    /\ pc = "host"
    /\ blocks /= <<>>
    /\ ~test(Head(blocks))
    /\ blocks' = Tail(blocks)
    /\ UNCHANGED <<pc, chunks, parent, config, Meta, textVars, bindVars, args, kwds>>

NextRun == Run \/ HostConsume

SpecRun == InitRun /\ [][NextRun]_vars

\* the settings the loop is followed under: the defaults, and a type mapped
\* to None, under which run raises
HostConfigs ==
    {[generators |-> <<>>, fallback |-> container],
     [generators |-> << <<<<"k">>, PyNone>> >>, fallback |-> container]}

InitHost ==
    /\ InitRun
    /\ config \in HostConfigs

\* the host calls the processors until the queue is empty
SpecHost == InitHost /\ [][NextRun]_vars /\ WF_vars(NextRun)

\* the merged registry of line 257
Registry == DictUpdate(_installed_generators, config.generators)

\* the type is absent from the registry or mapped to None
Unregistered(type) == ~DictHas(Registry, type) \/ DictGet(Registry, type) = PyNone

\* C1: when the type of the headline is absent from the merged registry or
\* mapped to None, run resolves the "fallback" setting, calls it with the
\* CallContext of the block and does not raise.
C1_FallbackResolution ==
    (blocktype /= <<>> /\ raised \notin {"SyntaxError", "IndexError"} /\ Unregistered(blocktype)) =>
        /\ raised = "none"
        /\ generator = config.fallback
        /\ ctx = [type |-> blocktype, content |-> content]

RECURSIVE TotalText(_)
TotalText(queue) == IF queue = <<>> THEN 0 ELSE Len(Head(queue)) + TotalText(Tail(queue))

\* t is the end of the text b
TrailingPart(t, b) == Len(t) <= Len(b) /\ t = SubSeq(b, Len(b) - Len(t) + 1, Len(b))

\* the queue after is the end of the queue before, its first block the end
\* of a block that was read
PushedBack(before, after) ==
    \/ after = <<>>
    \/ \E j \in 1..Len(before) :
          /\ TrailingPart(Head(after), before[j])
          /\ Tail(after) = SubSeq(before, j + 1, Len(before))

Terminated == pc = "raised" \/ blocks = <<>>

====
